---- MODULE Spec2Model ----
(***************************************************************************)
(* Model of scripts/download_models.py: the static pack catalog            *)
(* MODEL_PACKS, download_file (exists check, streamed GET, cleanup on      *)
(* error) and download_model_pack (three sequential loops over the main,   *)
(* LoRA and ControlNet groups, aggregated success flag).                   *)
(*                                                                         *)
(* The file system is the function disk: its domain is the set of paths    *)
(* that exist (relative to MODEL_DIR), its value the number of chunks the  *)
(* file holds.  The same command is run up to twice on the same disk.      *)
(***************************************************************************)
EXTENDS Integers, Sequences, FiniteSets, TLC

\* ---------------------------------------------------------------- bounds
\* The largest number of chunks response.iter_content yields for a body.
NumChunks == 2
\* Transfers that raise an exception, over the two runs together.
MaxFailures == 2
\* Files already on disk before the first run.
MaxPreexisting == 1

\* --------------------------------------------------------------- catalog
\* A catalog entry without an 'optional' key (url and size are not modelled:
\* the url only names the remote resource, the size label is display only).
R(key, path) == [key |-> key, path |-> path]
\* A catalog entry with an explicit 'optional' key.
O(key, path, opt) == [key |-> key, path |-> path, optional |-> opt]

\* The pack catalog; a Python dict keeps insertion order, so each group is a
\* sequence.  A group key a pack does not declare is absent from its record.
MODEL_PACKS ==
    "flux-dev" :>
     [ files |-> <<
            R("checkpoint", "checkpoints/flux1-dev.safetensors"),
            R("clip_l", "clip/clip_l.safetensors"),
            R("t5xxl", "clip/t5xxl_fp16.safetensors"),
            R("vae", "vae/flux_vae.safetensors") >>,
       loras |-> <<
            O("flux-realism", "loras/flux-realism.safetensors", TRUE) >> ]
  @@
    "flux-schnell" :>
     [ files |-> <<
            R("checkpoint", "checkpoints/flux1-schnell.safetensors"),
            R("clip_l", "clip/clip_l.safetensors"),
            R("t5xxl", "clip/t5xxl_fp8_e4m3fn.safetensors"),
            R("vae", "vae/flux_vae.safetensors") >> ]
  @@
    "sdxl" :>
     [ files |-> <<
            R("checkpoint", "checkpoints/sd_xl_base_1.0.safetensors"),
            O("refiner", "checkpoints/sd_xl_refiner_1.0.safetensors", TRUE),
            R("vae", "vae/sdxl_vae.safetensors") >>,
       loras |-> <<
            O("realistic_skin_texture", "loras/realistic_skin_texture_v4.safetensors", TRUE),
            O("skin_realism_acne", "loras/skin_realism_acne_details.safetensors", TRUE),
            O("touch_of_realism", "loras/touch_of_realism_sdxl_v2.safetensors", TRUE) >>,
       embeddings |-> <<
            O("realistic_skin_ti", "embeddings/RealisticSkin.safetensors", TRUE) >> ]
  @@
    "sdxl-biglove" :>
     [ files |-> <<
            R("checkpoint", "checkpoints/bigLove_insta1.safetensors"),
            R("vae", "vae/sdxl_vae.safetensors") >>,
       loras |-> <<
            O("realistic_skin_texture", "loras/realistic_skin_texture_v4.safetensors", TRUE) >> ]
  @@
    "wan22" :>
     [ files |-> <<
            R("unet_low_noise", "unet/wan2.2_t2v_low_noise_14B_fp8_scaled.safetensors"),
            R("unet_high_noise", "unet/wan2.2_t2v_high_noise_14B_fp8_scaled.safetensors"),
            R("clip", "clip/umt5_xxl_fp8_e4m3fn_scaled.safetensors"),
            R("vae", "vae/wan_2.1_vae.safetensors") >>,
       loras |-> <<
            O("lightning_low", "loras/wan22_lightning_low_4steps.safetensors", TRUE),
            O("lightning_high", "loras/wan22_lightning_high_4steps.safetensors", TRUE),
            O("lenovo_ultrareal", "loras/lenovo_ultrareal_wan22.safetensors", TRUE) >> ]
  @@
    "qwen-image" :>
     [ files |-> <<
            R("checkpoint", "checkpoints/qwen_image_2509_fp8_scaled.safetensors"),
            R("text_encoder", "clip/qwen_2.5_vl_7b_fp8_scaled.safetensors"),
            R("vae", "vae/qwen_image_vae.safetensors") >>,
       loras |-> <<
            O("lightning_v1", "loras/qwen_image_lightning_4steps_v1.0.safetensors", TRUE),
            O("lightning_alt", "loras/qwen_image_lightning_4steps_alt.safetensors", TRUE) >> ]
  @@
    "sd15" :>
     [ files |-> <<
            R("checkpoint", "checkpoints/v1-5-pruned-emaonly.safetensors"),
            R("vae", "vae/sd15_vae.safetensors") >>,
       controlnet |-> <<
            O("canny", "controlnet/control_v11p_sd15_canny.pth", TRUE),
            O("depth", "controlnet/control_v11f1p_sd15_depth.pth", TRUE) >> ]
  @@
    "upscalers" :>
     [ files |-> <<
            R("seedvr2", "upscale_models/seedvr2_ema_7b_sharp_fp8.safetensors"),
            R("realesrgan_x4plus", "upscale_models/RealESRGAN_x4plus.pth"),
            R("realesrgan_x4plus_anime", "upscale_models/RealESRGAN_x4plus_anime_6B.pth"),
            R("ultrasharp_4x", "upscale_models/4x-UltraSharp.pth"),
            O("lollypop_4x", "upscale_models/4x-Lollypop.pth", TRUE),
            O("nmkd_superscale", "upscale_models/4x_NMKD-Superscale-SP_178000_G.pth", TRUE),
            O("ldsr", "upscale_models/ldsr.ckpt", TRUE) >>,
       loras |-> <<
            O("skin_detail_lite", "loras/skin_detail_lite_v1.safetensors", TRUE),
            O("detail_tweaker", "loras/detail_tweaker_xl.safetensors", TRUE) >> ]

VARIABLES
    pack_name,        \* argument of download_model_pack
    skip_optional,    \* argument
    skip_loras,       \* argument
    skip_controlnet,  \* argument
    body,             \* the shape of the bodies the server sends
    disk,             \* the files under MODEL_DIR: path -> chunks held
    run,              \* 1 for the first run of the command, 2 for the second
    pc,               \* download_model_pack: "start", "loop", "return",
                      \*   "done"; "killed" after a termination, "crashed"
                      \*   after an exception nothing catches
    pack,             \* key of the resolved pack ("" before the lookup)
    success,          \* local variable success
    ret,              \* value returned by download_model_pack ("none" before)
    stage,            \* which of the three loops is running (index in Stages)
    i,                \* position in the current loop (1-based)
    dlpc,             \* download_file: "idle", "get", "open", "iter",
                      \*                "except", "unlink", "returned"
    destination,      \* argument of the running download_file ("" if none)
    dlret,            \* value returned by download_file
    pbar,             \* chunks passed to f.write by the running download_file
    buf,              \* chunks held in the buffer of the file object f
    attempts,         \* entries passed to download_file in this run, in order
    outcomes,         \* what each returned call printed:
                      \*   "skipped", "downloaded" or "failed"
    netcalls,         \* entries for which requests.get was called in this run
    nfail,            \* exceptions raised so far (both runs)
    diskAtStart,      \* disk when the current run started
    prevFailed,       \* entries whose download_file failed in the first run
    interrupted,      \* where the first run was when it was terminated
    peer              \* the pack run of a second, simultaneous invocation
                      \* of the script

vars == << pack_name, skip_optional, skip_loras, skip_controlnet, body, disk,
           run, pc, pack, success, ret, stage, i, dlpc, destination, dlret,
           pbar, buf, attempts, outcomes, netcalls, nfail, diskAtStart,
           prevFailed, interrupted, peer >>

args == << pack_name, skip_optional, skip_loras, skip_controlnet >>
dlvars == << dlpc, destination, dlret, pbar, buf >>
logs == << attempts, outcomes, netcalls >>
hist == << run, diskAtStart, prevFailed >>
env == << interrupted, peer >>

\* ----------------------------------------------------------- file system
\* destination.exists()
Exists(d, p) == p \in DOMAIN d

\* open(destination, 'wb'): creates the file, or truncates it, to length 0
OpenWb(d, p) == [q \in DOMAIN d \cup {p} |-> IF q = p THEN 0 ELSE d[q]]

\* A write that reaches the file at position off: the file extends to
\* off + 1 chunks if it was shorter; a write to a file that was unlinked
\* meanwhile does not bring the path back.
WriteAt(d, p, off) ==
    [q \in DOMAIN d |-> IF q = p /\ d[q] < off + 1 THEN off + 1 ELSE d[q]]

\* f is flushed (when it is closed, or when a write finds the buffer too
\* full): the chunks the buffer holds, if any, are written at the position of
\* the file object, after the written - buffered chunks that went to the
\* file before, so that the file ends where the last of the written chunks
\* ends.
Close(d, p, written, buffered) ==
    IF buffered > 0 THEN WriteAt(d, p, written - 1) ELSE d

\* An unlink that leaves the file where it is.
Unlink_Noop(d, p) == [raises |-> p \notin DOMAIN d, disk |-> d]

\* destination.unlink(): removes the path; FileNotFoundError if it is absent
\* (missing_ok is not passed).
Unlink(d, p) ==
    IF p \in DOMAIN d
    THEN [raises |-> FALSE, disk |-> [q \in DOMAIN d \ {p} |-> d[q]]]
    ELSE [raises |-> TRUE, disk |-> d]

\* An existence check that only accepts a file of full length.
AlreadyThere_FullOnly(d, p) == p \in DOMAIN d /\ d[p] = NumChunks

\* if destination.exists(): ... return True
AlreadyThere(d, p) == Exists(d, p)

\* ---------------------------------------------------------------- responses
\* The sizes in bytes tried for the chunks response.iter_content yields:
\* chunk_size itself and two shorter ones, as a response in chunked transfer
\* encoding gives them at any position.
ChunkSizes == { 1000, 3000, 8192 }

\* The size in bytes of the buffer of the file object f: the block size of
\* the file system (st_blksize).
BufferSize == 4096

\* The bodies a response may have: the sizes of the chunks iter_content
\* yields for it, in order.  A body may be empty or a single chunk.
Bodies == UNION { [1..n -> ChunkSizes] : n \in 0..NumChunks }

\* The number of chunks iter_content yields for body b.
BodyLen(b) == Len(b)

\* The bytes the buffer of f holds: the last `buffered` of the `written`
\* chunks of body b passed to f.write.
RECURSIVE Buffered(_, _, _)
Buffered(b, written, buffered) ==
    IF buffered = 0 THEN 0
    ELSE b[written] + Buffered(b, written - 1, buffered - 1)

\* f.write(chunk) for the next chunk of body b, on a file object that holds
\* `buffered` chunks of the `written` it was given: a chunk that fits in the
\* free part of the buffer stays there; otherwise the buffer is written to
\* the file first, and then the chunk goes to the file if it is larger than
\* the whole buffer and into the buffer if not.
Write(d, p, b, written, buffered) ==
    IF Buffered(b, written, buffered) + b[written + 1] <= BufferSize
    THEN [disk |-> d, buf |-> buffered + 1]
    ELSE IF b[written + 1] > BufferSize
         THEN [disk |-> WriteAt(Close(d, p, written, buffered), p, written),
               buf |-> 0]
         ELSE [disk |-> Close(d, p, written, buffered), buf |-> 1]

\* ------------------------------------------------------ download_model_pack
\* file_info.get('optional', False)
Optional(info) == IF "optional" \in DOMAIN info THEN info.optional ELSE FALSE

\* The loops in an order that fetches the LoRAs first.
Stages_LorasFirst == << "loras", "files", "controlnet" >>

\* The three loops of download_model_pack, in program order.
Stages == << "files", "loras", "controlnet" >>

\* A group test that forgets the skip flags.
GroupRuns_IgnoreFlags(g) == g \in DOMAIN MODEL_PACKS[pack]

\* The condition under which the loop over group g is entered:
\* pack['files'] always; if 'loras' in pack and not skip_loras;
\* if 'controlnet' in pack and not skip_controlnet.
GroupRuns(g) ==
    CASE g = "files"      -> TRUE
      [] g = "loras"      -> "loras" \in DOMAIN MODEL_PACKS[pack] /\ ~skip_loras
      [] g = "controlnet" -> "controlnet" \in DOMAIN MODEL_PACKS[pack]
                             /\ ~skip_controlnet

\* The items the loop of the current stage iterates over.
Entries == IF GroupRuns(Stages[stage]) THEN MODEL_PACKS[pack][Stages[stage]]
                                       ELSE << >>

\* The entry the current loop is at.
CurEntry == << Stages[stage], i >>

\* if skip_optional and info.get('optional', False): continue
SkipEntry(info) == skip_optional /\ Optional(info)

\* A main loop that never records a failure.
MainOutcome_Ignore(succ, ok, info) == succ

\* A main-loop result that counts every failure, optional or not.
MainOutcome_AnyFailure(succ, ok, info) == IF ~ok THEN FALSE ELSE succ

\* if not download_file(...): if not file_info.get('optional', False):
\*     success = False
MainOutcome(succ, ok, info) ==
    IF ~ok /\ ~Optional(info) THEN FALSE ELSE succ

\* A loop that stays on an entry whose download failed.
NextIndex_Retry(n, ok) == IF ok THEN n + 1 ELSE n

\* The for loop moves to the next item whatever download_file returned.
NextIndex(n, ok) == n + 1

\* sys.exit(0 if success else 1); an exception nothing catches also ends
\* the process with status 1.
ExitCode == IF ret = "True" THEN 0 ELSE 1

\* The first run was not terminated.
NoInterrupt == [entry |-> << >>, at |-> "none", written |-> 0, left |-> 0]

\* No second invocation is running.  Of a second invocation the record keeps
\* what download_model_pack and its running download_file call hold: the
\* position in the pack run (pc, pack, stage, i, success, ret), the position
\* in download_file (dlpc, destination, dlret, pbar, buf) and what the last
\* call that returned printed (outcome).
NoPeer == [pc |-> "off", pack |-> "", stage |-> 1, i |-> 1, success |-> TRUE,
           ret |-> "none", dlpc |-> "idle", destination |-> "",
           dlret |-> TRUE, pbar |-> 0, buf |-> 0, outcome |-> "none"]

\* ------------------------------------------------------------------- inputs
\* The catalog keys whose runs are explored: a pack of main files only, one
\* with an optional main file and LoRAs, one with ControlNets, and one that
\* shares destinations with another pack.  The other packs have the groups
\* of one of these, with more entries.
RunPacks == { "flux-schnell", "sdxl", "sd15", "sdxl-biglove" }

\* The pack keys tried: those catalog keys and one that is not in the catalog.
PackInputs == RunPacks \cup { "no-such-pack" }

\* Every destination path a pack declares, in any group.
PackPaths(pk) ==
    UNION { { MODEL_PACKS[pk][g][k].path : k \in 1..Len(MODEL_PACKS[pk][g]) }
            : g \in DOMAIN MODEL_PACKS[pk] }

\* The paths that may hold a file before the first run.
CandidatePaths(pn) ==
    IF pn \in DOMAIN MODEL_PACKS THEN PackPaths(pn) ELSE PackPaths("sd15")

\* The disks the first run may start from: a few files put there by
\* something else, each one chunk short of the longest body (as long as a
\* short body, shorter than a long one).
InitialDisks(pn) ==
    UNION { [S -> { NumChunks - 1 }] :
            S \in { T \in SUBSET CandidatePaths(pn) :
                    Cardinality(T) <= MaxPreexisting } }

\* The values tried for the flag of group g: both where the flag can make a
\* difference, that is unless pack pn is in the catalog and has no group g
\* (then "if g in pack and not skip" is false with either value).
FlagInputs(pn, g) ==
    IF pn \in DOMAIN MODEL_PACKS /\ g \notin DOMAIN MODEL_PACKS[pn]
    THEN { FALSE } ELSE BOOLEAN

Init ==
    /\ pack_name \in PackInputs
    /\ skip_optional \in BOOLEAN
    /\ skip_loras \in FlagInputs(pack_name, "loras")
    /\ skip_controlnet \in FlagInputs(pack_name, "controlnet")
    /\ body \in Bodies
    /\ disk \in InitialDisks(pack_name)
    /\ diskAtStart = disk
    /\ run = 1
    /\ pc = "start"
    /\ pack = ""
    /\ success = TRUE
    /\ ret = "none"
    /\ stage = 1
    /\ i = 1
    /\ dlpc = "idle"
    /\ destination = ""
    /\ dlret = TRUE
    /\ pbar = 0
    /\ buf = 0
    /\ attempts = << >>
    /\ outcomes = << >>
    /\ netcalls = << >>
    /\ nfail = 0
    /\ prevFailed = {}
    /\ interrupted = NoInterrupt
    /\ peer = NoPeer

\* ------------------------------------------------------------------ actions
\* An unknown key resolved to a default pack instead of being rejected.
Lookup_Default ==
    /\ pc = "start"
    /\ pack' = IF pack_name \in DOMAIN MODEL_PACKS THEN pack_name ELSE "sd15"
    /\ success' = TRUE
    /\ pc' = "loop"
    /\ stage' = 1
    /\ i' = 1
    /\ UNCHANGED << args, body, env, disk, ret, dlvars, logs, nfail, hist >>

\* if pack_name not in MODEL_PACKS: return False
\* pack = MODEL_PACKS[pack_name]; success = True
Lookup ==
    /\ pc = "start"
    /\ IF pack_name \notin DOMAIN MODEL_PACKS
       THEN /\ ret' = "False"
            /\ pc' = "done"
            /\ UNCHANGED << pack, success, stage, i >>
       ELSE /\ pack' = pack_name
            /\ success' = TRUE
            /\ pc' = "loop"
            /\ stage' = 1
            /\ i' = 1
            /\ ret' = ret
    /\ UNCHANGED << args, body, env, disk, dlvars, logs, nfail, hist >>

\* The loop is at an entry and no download_file call is running.
AtEntry == pc = "loop" /\ dlpc = "idle" /\ i <= Len(Entries)

\* The continue branch: the entry is optional and skip_optional is set.
SkipOptional ==
    /\ AtEntry
    /\ SkipEntry(Entries[i])
    /\ i' = i + 1
    /\ UNCHANGED << args, body, env, disk, pc, pack, success, ret, stage,
                    dlvars, logs, nfail, hist >>

\* The call of download_file and its first statement, the existence check.
CallDownloadFile ==
    /\ AtEntry
    /\ ~SkipEntry(Entries[i])
    /\ attempts' = Append(attempts, CurEntry)
    /\ destination' = Entries[i].path
    /\ IF AlreadyThere(disk, Entries[i].path)
       THEN /\ dlpc' = "returned"
            /\ dlret' = TRUE
            /\ outcomes' = Append(outcomes, "skipped")
       ELSE /\ dlpc' = "get"
            /\ UNCHANGED << dlret, outcomes >>
    /\ UNCHANGED << args, body, env, disk, pc, pack, success, ret, stage, i,
                    pbar, buf, netcalls, nfail, hist >>

\* requests.get(url, stream=True, timeout=30); response.raise_for_status():
\* the network call, which answers or raises.
Get ==
    /\ dlpc = "get"
    /\ netcalls' = Append(netcalls, CurEntry)
    /\ \E ok \in BOOLEAN :
          IF ok THEN dlpc' = "open" /\ nfail' = nfail
                ELSE nfail < MaxFailures /\ dlpc' = "except"
                     /\ nfail' = nfail + 1
    /\ UNCHANGED << args, body, env, disk, pc, pack, success, ret, stage, i,
                    destination, dlret, pbar, buf, attempts, outcomes, hist >>

\* with open(destination, 'wb') as f, tqdm(...) as pbar
Open ==
    /\ dlpc = "open"
    /\ disk' = OpenWb(disk, destination)
    /\ pbar' = 0
    /\ buf' = 0
    /\ dlpc' = "iter"
    /\ UNCHANGED << args, body, env, pc, pack, success, ret, stage, i,
                    destination, dlret, logs, nfail, hist >>

\* for chunk in response.iter_content(...): f.write(chunk); pbar.update(...)
\* (An empty chunk is dropped by "if chunk" and changes nothing.)
WriteChunk ==
    /\ dlpc = "iter"
    /\ pbar < BodyLen(body)
    /\ disk' = Write(disk, destination, body, pbar, buf).disk
    /\ buf' = Write(disk, destination, body, pbar, buf).buf
    /\ pbar' = pbar + 1
    /\ UNCHANGED << args, body, env, pc, pack, success, ret, stage, i, dlpc,
                    destination, dlret, logs, nfail, hist >>

\* The body is exhausted: the with block closes the file, which writes what
\* the buffer holds; return True.
Finish ==
    /\ dlpc = "iter"
    /\ pbar = BodyLen(body)
    /\ disk' = Close(disk, destination, pbar, buf)
    /\ buf' = 0
    /\ dlpc' = "returned"
    /\ dlret' = TRUE
    /\ outcomes' = Append(outcomes, "downloaded")
    /\ UNCHANGED << args, body, env, pc, pack, success, ret, stage, i,
                    destination, pbar, attempts, netcalls, nfail, hist >>

\* An exception inside the try block after the response arrived: open()
\* fails, or iter_content raises after any number of chunks; on its way out
\* of the with block the exception closes the file.
Raise ==
    /\ dlpc \in { "open", "iter" }
    /\ nfail < MaxFailures
    /\ nfail' = nfail + 1
    /\ disk' = IF dlpc = "iter" THEN Close(disk, destination, pbar, buf)
                                ELSE disk
    /\ buf' = 0
    /\ dlpc' = "except"
    /\ UNCHANGED << args, body, env, pc, pack, success, ret, stage, i,
                    destination, dlret, pbar, logs, hist >>

\* except Exception: print the error; if destination.exists(): ...
\* else return False
ExceptCheck ==
    /\ dlpc = "except"
    /\ IF Exists(disk, destination)
       THEN /\ dlpc' = "unlink"
            /\ UNCHANGED << dlret, outcomes >>
       ELSE /\ dlpc' = "returned"
            /\ dlret' = FALSE
            /\ outcomes' = Append(outcomes, "failed")
    /\ UNCHANGED << args, body, env, disk, pc, pack, success, ret, stage, i,
                    destination, pbar, buf, attempts, netcalls, nfail, hist >>

\* destination.unlink(); return False.  If the path is gone since the check,
\* FileNotFoundError leaves download_file and download_model_pack: the
\* process ends with a traceback and no result.
ExceptUnlink ==
    /\ dlpc = "unlink"
    /\ IF Unlink(disk, destination).raises
       THEN /\ pc' = "crashed"
            /\ dlpc' = "idle"
            /\ destination' = ""
            /\ pbar' = 0
            /\ UNCHANGED << disk, dlret, outcomes >>
       ELSE /\ disk' = Unlink(disk, destination).disk
            /\ dlpc' = "returned"
            /\ dlret' = FALSE
            /\ outcomes' = Append(outcomes, "failed")
            /\ UNCHANGED << pc, destination, pbar >>
    /\ UNCHANGED << args, body, env, pack, success, ret, stage, i, buf,
                    attempts, netcalls, nfail, hist >>

\* Back in the loop: only the main loop looks at the returned value.
AfterCall ==
    /\ pc = "loop"
    /\ dlpc = "returned"
    /\ success' = IF Stages[stage] = "files"
                  THEN MainOutcome(success, dlret, Entries[i])
                  ELSE success
    /\ i' = NextIndex(i, dlret)
    /\ dlpc' = "idle"
    /\ destination' = ""
    /\ dlret' = TRUE
    /\ pbar' = 0
    /\ buf' = 0
    /\ UNCHANGED << args, body, env, disk, pc, pack, ret, stage, logs, nfail,
                    hist >>

\* The current loop is exhausted (or was not entered): the next one, or
\* the end of the function.
EndGroup ==
    /\ pc = "loop"
    /\ dlpc = "idle"
    /\ i > Len(Entries)
    /\ IF stage < Len(Stages)
       THEN stage' = stage + 1 /\ i' = 1 /\ pc' = pc
       ELSE pc' = "return" /\ UNCHANGED << stage, i >>
    /\ UNCHANGED << args, body, env, disk, pack, success, ret, dlvars, logs,
                    nfail, hist >>

\* A return that removes what the run downloaded when the pack failed.
ReturnPack_Rollback ==
    /\ pc = "return"
    /\ ret' = IF success THEN "True" ELSE "False"
    /\ pc' = "done"
    /\ disk' = IF success THEN disk
               ELSE [q \in DOMAIN disk \cap DOMAIN diskAtStart |-> disk[q]]
    /\ UNCHANGED << args, body, env, pack, success, stage, i, dlvars, logs,
                    nfail, hist >>

\* return success
ReturnPack ==
    /\ pc = "return"
    /\ ret' = IF success THEN "True" ELSE "False"
    /\ pc' = "done"
    /\ UNCHANGED << args, body, env, disk, pack, success, stage, i, dlvars,
                    logs, nfail, hist >>

\* The entries whose download_file call returned False in this run.
FailedEntries ==
    { attempts[k] : k \in { n \in 1..Len(outcomes) : outcomes[n] = "failed" } }

\* The same command is started a second time on the disk the first left.
Rerun ==
    /\ pc = "done"
    /\ run = 1
    /\ run' = 2
    /\ prevFailed' = FailedEntries
    /\ diskAtStart' = disk
    /\ pc' = "start"
    /\ pack' = ""
    /\ success' = TRUE
    /\ ret' = "none"
    /\ stage' = 1
    /\ i' = 1
    /\ attempts' = << >>
    /\ outcomes' = << >>
    /\ netcalls' = << >>
    /\ UNCHANGED << args, body, env, disk, dlvars, nfail >>

Next ==
    \/ Lookup
    \/ SkipOptional
    \/ CallDownloadFile
    \/ Get
    \/ Open
    \/ WriteChunk
    \/ Finish
    \/ Raise
    \/ ExceptCheck
    \/ ExceptUnlink
    \/ AfterCall
    \/ EndGroup
    \/ ReturnPack
    \/ Rerun

Spec == Init /\ [][Next]_vars

\* ------------------------------------------------------------- interruption
\* The ways the process is terminated from outside.  The script installs no
\* handler: SIGINT raises KeyboardInterrupt in the running statement, which
\* unwinds the with block; SIGKILL, and SIGTERM alike, end the process at
\* once.
Signals == { "SIGINT", "SIGKILL" }

\* The disk a termination by signal sig leaves: KeyboardInterrupt closes an
\* open file on its way out, which writes what the buffer holds; a kill
\* loses the chunks in the buffer.
DiskAfter(sig) ==
    IF sig = "SIGINT" /\ dlpc = "iter"
    THEN Close(disk, destination, pbar, buf)
    ELSE disk

\* What is recorded of a termination that leaves disk d: the entry whose
\* download_file call was running and where it was, the chunks it had passed
\* to f.write and the chunks its file is left with.
Interruption(d) ==
    IF dlpc \in { "get", "open", "iter", "except", "unlink" }
    THEN [entry |-> CurEntry, at |-> dlpc, written |-> pbar,
          left |-> IF destination \in DOMAIN d THEN d[destination] ELSE 0]
    ELSE [entry |-> << >>, at |-> dlpc, written |-> 0, left |-> 0]

\* A termination that is caught like an error: the destination is unlinked.
Interrupt_Cleanup ==
    /\ run = 1
    /\ pc \in { "start", "loop", "return" }
    /\ \E sig \in Signals :
          LET d == IF dlpc \in { "iter", "except", "unlink" }
                      /\ Exists(DiskAfter(sig), destination)
                   THEN Unlink(DiskAfter(sig), destination).disk
                   ELSE DiskAfter(sig)
          IN /\ disk' = d
             /\ interrupted' = Interruption(d)
    /\ pc' = "killed"
    /\ dlpc' = "idle"
    /\ destination' = ""
    /\ dlret' = TRUE
    /\ pbar' = 0
    /\ buf' = 0
    /\ UNCHANGED << args, body, peer, pack, success, ret, stage, i, logs,
                    nfail, hist >>

\* The process is terminated during the first run.  KeyboardInterrupt is
\* not an Exception, so the except branch of download_file does not run:
\* nothing is unlinked and nothing is returned.
Interrupt ==
    /\ run = 1
    /\ pc \in { "start", "loop", "return" }
    /\ \E sig \in Signals :
          /\ disk' = DiskAfter(sig)
          /\ interrupted' = Interruption(DiskAfter(sig))
    /\ pc' = "killed"
    /\ dlpc' = "idle"
    /\ destination' = ""
    /\ dlret' = TRUE
    /\ pbar' = 0
    /\ buf' = 0
    /\ UNCHANGED << args, body, peer, pack, success, ret, stage, i, logs,
                    nfail, hist >>

\* The same command is started again after the first run was terminated.
Restart ==
    /\ pc = "killed"
    /\ run = 1
    /\ run' = 2
    /\ prevFailed' = FailedEntries
    /\ diskAtStart' = disk
    /\ pc' = "start"
    /\ pack' = ""
    /\ success' = TRUE
    /\ ret' = "none"
    /\ stage' = 1
    /\ i' = 1
    /\ attempts' = << >>
    /\ outcomes' = << >>
    /\ netcalls' = << >>
    /\ UNCHANGED << args, body, env, disk, dlvars, nfail >>

\* A run of the command that may be terminated, and the run started after
\* the termination.
NextInt ==
    \/ Lookup
    \/ SkipOptional
    \/ CallDownloadFile
    \/ Get
    \/ Open
    \/ WriteChunk
    \/ Finish
    \/ Raise
    \/ ExceptCheck
    \/ ExceptUnlink
    \/ AfterCall
    \/ EndGroup
    \/ ReturnPack
    \/ Interrupt
    \/ Restart

\* The packs whose runs are terminated: one with ControlNets, one with a
\* LoRA.
IntPacks == { "sd15", "sdxl-biglove" }

InitInt == Init /\ pack_name \in IntPacks

SpecInt == InitInt /\ [][NextInt]_vars

\* ------------------------------------------------- simultaneous invocation
\* The pack run while a second invocation is active: it shares a main file
\* and a LoRA with pack sdxl.
RacePacks == { "sdxl-biglove" }

\* The destinations of pack pn that another pack declares too.
SharedPaths(pn) ==
    { p \in PackPaths(pn) :
          \E other \in DOMAIN MODEL_PACKS \ { pn } : p \in PackPaths(other) }

\* The packs a second invocation runs: the other catalog packs that declare
\* a destination of pack pn.
PeerPacks(pn) ==
    { other \in DOMAIN MODEL_PACKS \ { pn } :
          PackPaths(other) \cap PackPaths(pn) # {} }

\* The items the current loop of the second invocation iterates over; it was
\* started without a skip flag.
PeerEntries ==
    IF Stages[peer.stage] \in DOMAIN MODEL_PACKS[peer.pack]
    THEN MODEL_PACKS[peer.pack][Stages[peer.stage]]
    ELSE << >>

\* A second invocation of the script starts, at any moment of the first
\* one's run, for another pack: the lookup succeeds, success = True.
PeerStart ==
    /\ run = 1
    /\ peer.pc = "off"
    /\ \E pk \in PeerPacks(pack_name) :
          peer' = [peer EXCEPT !.pc = "loop", !.pack = pk, !.stage = 1,
                               !.i = 1, !.success = TRUE]
    /\ UNCHANGED << args, body, interrupted, disk, pc, pack, success, ret,
                    stage, i, dlvars, logs, nfail, hist >>

\* The second invocation calls download_file for the entry its loop is at:
\* the call and its existence check.
PeerCallDownloadFile ==
    /\ peer.pc = "loop"
    /\ peer.dlpc = "idle"
    /\ peer.i <= Len(PeerEntries)
    /\ peer' = IF AlreadyThere(disk, PeerEntries[peer.i].path)
               THEN [peer EXCEPT !.dlpc = "returned", !.dlret = TRUE,
                                 !.destination = PeerEntries[peer.i].path,
                                 !.outcome = "skipped"]
               ELSE [peer EXCEPT !.dlpc = "get",
                                 !.destination = PeerEntries[peer.i].path,
                                 !.outcome = "none"]
    /\ UNCHANGED << args, body, interrupted, disk, pc, pack, success, ret,
                    stage, i, dlvars, logs, nfail, hist >>

\* requests.get and raise_for_status in the second invocation.
PeerGet ==
    /\ peer.dlpc = "get"
    /\ \E ok \in BOOLEAN :
          IF ok THEN peer' = [peer EXCEPT !.dlpc = "open"] /\ nfail' = nfail
                ELSE nfail < MaxFailures
                     /\ peer' = [peer EXCEPT !.dlpc = "except"]
                     /\ nfail' = nfail + 1
    /\ UNCHANGED << args, body, interrupted, disk, pc, pack, success, ret,
                    stage, i, dlvars, logs, hist >>

\* open(destination, 'wb') in the second invocation.
PeerOpen ==
    /\ peer.dlpc = "open"
    /\ disk' = OpenWb(disk, peer.destination)
    /\ peer' = [peer EXCEPT !.dlpc = "iter", !.pbar = 0, !.buf = 0]
    /\ UNCHANGED << args, body, interrupted, pc, pack, success, ret, stage,
                    i, dlvars, logs, nfail, hist >>

\* The chunk loop of the second invocation.
PeerWriteChunk ==
    /\ peer.dlpc = "iter"
    /\ peer.pbar < BodyLen(body)
    /\ disk' = Write(disk, peer.destination, body, peer.pbar, peer.buf).disk
    /\ peer' = [peer EXCEPT
                   !.pbar = @ + 1,
                   !.buf = Write(disk, peer.destination, body, peer.pbar,
                                 peer.buf).buf]
    /\ UNCHANGED << args, body, interrupted, pc, pack, success, ret, stage,
                    i, dlvars, logs, nfail, hist >>

\* The second invocation's with block closes the file and download_file
\* returns True.
PeerFinish ==
    /\ peer.dlpc = "iter"
    /\ peer.pbar = BodyLen(body)
    /\ disk' = Close(disk, peer.destination, peer.pbar, peer.buf)
    /\ peer' = [peer EXCEPT !.dlpc = "returned", !.dlret = TRUE, !.buf = 0,
                            !.outcome = "downloaded"]
    /\ UNCHANGED << args, body, interrupted, pc, pack, success, ret, stage,
                    i, dlvars, logs, nfail, hist >>

\* An exception in the try block of the second invocation.
PeerRaise ==
    /\ peer.dlpc \in { "open", "iter" }
    /\ nfail < MaxFailures
    /\ nfail' = nfail + 1
    /\ disk' = IF peer.dlpc = "iter"
               THEN Close(disk, peer.destination, peer.pbar, peer.buf)
               ELSE disk
    /\ peer' = [peer EXCEPT !.dlpc = "except", !.buf = 0]
    /\ UNCHANGED << args, body, interrupted, pc, pack, success, ret, stage,
                    i, dlvars, logs, hist >>

\* The except branch of the second invocation: if destination.exists()
PeerExceptCheck ==
    /\ peer.dlpc = "except"
    /\ peer' = IF Exists(disk, peer.destination)
               THEN [peer EXCEPT !.dlpc = "unlink"]
               ELSE [peer EXCEPT !.dlpc = "returned", !.dlret = FALSE,
                                 !.outcome = "failed"]
    /\ UNCHANGED << args, body, interrupted, disk, pc, pack, success, ret,
                    stage, i, dlvars, logs, nfail, hist >>

\* destination.unlink() in the second invocation: return False, or
\* FileNotFoundError ends that process.
PeerUnlink ==
    /\ peer.dlpc = "unlink"
    /\ IF Unlink(disk, peer.destination).raises
       THEN /\ peer' = [peer EXCEPT !.pc = "crashed", !.dlpc = "idle",
                                    !.destination = "", !.pbar = 0]
            /\ disk' = disk
       ELSE /\ disk' = Unlink(disk, peer.destination).disk
            /\ peer' = [peer EXCEPT !.dlpc = "returned", !.dlret = FALSE,
                                    !.outcome = "failed"]
    /\ UNCHANGED << args, body, interrupted, pc, pack, success, ret, stage,
                    i, dlvars, logs, nfail, hist >>

\* Back in the loop of the second invocation.
PeerAfterCall ==
    /\ peer.pc = "loop"
    /\ peer.dlpc = "returned"
    /\ peer' = [peer EXCEPT
                   !.success = IF Stages[peer.stage] = "files"
                               THEN MainOutcome(peer.success, peer.dlret,
                                                PeerEntries[peer.i])
                               ELSE peer.success,
                   !.i = NextIndex(peer.i, peer.dlret),
                   !.dlpc = "idle", !.destination = "", !.dlret = TRUE,
                   !.pbar = 0, !.buf = 0]
    /\ UNCHANGED << args, body, interrupted, disk, pc, pack, success, ret,
                    stage, i, dlvars, logs, nfail, hist >>

\* The current loop of the second invocation is exhausted: the next one, or
\* return success.
PeerEndGroup ==
    /\ peer.pc = "loop"
    /\ peer.dlpc = "idle"
    /\ peer.i > Len(PeerEntries)
    /\ peer' = IF peer.stage < Len(Stages)
               THEN [peer EXCEPT !.stage = @ + 1, !.i = 1]
               ELSE [peer EXCEPT
                        !.pc = "done",
                        !.ret = IF peer.success THEN "True" ELSE "False"]
    /\ UNCHANGED << args, body, interrupted, disk, pc, pack, success, ret,
                    stage, i, dlvars, logs, nfail, hist >>

\* One run of a pack with the pack run of a second invocation interleaved
\* step by step.
NextRace ==
    \/ Lookup
    \/ SkipOptional
    \/ CallDownloadFile
    \/ Get
    \/ Open
    \/ WriteChunk
    \/ Finish
    \/ Raise
    \/ ExceptCheck
    \/ ExceptUnlink
    \/ AfterCall
    \/ EndGroup
    \/ ReturnPack
    \/ PeerStart
    \/ PeerCallDownloadFile
    \/ PeerGet
    \/ PeerOpen
    \/ PeerWriteChunk
    \/ PeerFinish
    \/ PeerRaise
    \/ PeerExceptCheck
    \/ PeerUnlink
    \/ PeerAfterCall
    \/ PeerEndGroup

\* The chunk sizes of the bodies sent to two simultaneous invocations: one
\* that stays in the buffer of f and one that is written through.
RaceSizes == { 1000, 8192 }

\* The first invocation is started in an empty model directory, with or
\* without --skip-optional; the second one is started without a skip flag.
InitRace ==
    /\ Init
    /\ pack_name \in RacePacks
    /\ ~skip_loras /\ ~skip_controlnet
    /\ DOMAIN disk = {}
    /\ \A k \in 1..Len(body) : body[k] \in RaceSizes

SpecRace == InitRace /\ [][NextRace]_vars

\* ------------------------------------------------------------------ claims
\* The pack key is a catalog key.
Known == pack_name \in DOMAIN MODEL_PACKS

\* The catalog record of entry e = <<group, index>> of the requested pack.
Info(e) == MODEL_PACKS[pack_name][e[1]][e[2]]

\* Entry e carries 'optional': True in the catalog.
FlaggedOptional(e) == "optional" \in DOMAIN Info(e) /\ Info(e).optional

\* The elements of a sequence.
Range(s) == { s[k] : k \in 1..Len(s) }

\* The calls of download_file that returned with outcome o in this run.
Returned(o) == { k \in 1..Len(outcomes) : outcomes[k] = o }

\* The entries of the main, LoRA and ControlNet groups the pack declares.
GroupEntries ==
    UNION { { << g, k >> : k \in 1..Len(MODEL_PACKS[pack_name][g]) }
            : g \in { "files", "loras", "controlnet" }
                    \cap DOMAIN MODEL_PACKS[pack_name] }

\* Entry e is excluded by a skip flag: by the flag of its group, or by
\* skip_optional when it is flagged optional.
ExcludedByFlag(e) ==
    \/ e[1] = "loras" /\ skip_loras
    \/ e[1] = "controlnet" /\ skip_controlnet
    \/ skip_optional /\ FlaggedOptional(e)

\* A download_file call is between its existence check and its return.
InFlight == dlpc \in { "get", "open", "iter", "except", "unlink" }

\* C1: for a catalog pack, download_model_pack returns False (exit code 1)
\* exactly when some attempted main-group entry that is not flagged optional
\* failed; failures of optional main entries, LoRAs and ControlNets never
\* make the result False.
C1_FailureIffRequiredMainFailed ==
    (pc = "done" /\ Known) =>
        LET requiredMainFailed ==
                \E k \in Returned("failed") :
                    attempts[k][1] = "files" /\ ~FlaggedOptional(attempts[k])
        IN /\ ret \in { "True", "False" }
           /\ ret = "False" <=> requiredMainFailed
           /\ ExitCode = 1 <=> requiredMainFailed
           /\ ExitCode = 0 <=> ~requiredMainFailed

\* C1 witness: a run that returned True although an optional main entry and
\* an entry of another group failed.
C1_Witness ==
    /\ pc = "done" /\ Known /\ ret = "True"
    /\ \E k \in Returned("failed") :
           attempts[k][1] = "files" /\ FlaggedOptional(attempts[k])
    /\ \E k \in Returned("failed") : attempts[k][1] # "files"

\* C2: when download_file has returned False, its destination does not
\* exist, wherever in the transfer the exception was raised.
C2_NoFileAfterFailure ==
    (dlpc = "returned" /\ ~dlret) => destination \notin DOMAIN disk

\* C2 witness: download_file returned False after it had passed every chunk
\* of the body to f.write, all of them still in the buffer when the
\* exception closed the file.
C2_Witness ==
    /\ dlpc = "returned" /\ ~dlret
    /\ pbar = BodyLen(body) /\ pbar >= 2
    /\ Buffered(body, pbar, pbar) <= BufferSize
    /\ destination \notin DOMAIN disk

\* C3: a download_file call whose destination exists makes no network call,
\* leaves the disk as it is and returns True (skipped), whatever the file
\* holds.
C3_ExistingIsSkipped ==
    [][ ( /\ dlpc = "idle"
          /\ Len(attempts') = Len(attempts) + 1
          /\ Info(attempts'[Len(attempts')]).path \in DOMAIN disk )
        => ( /\ disk' = disk
             /\ netcalls' = netcalls
             /\ dlpc' = "returned"
             /\ dlret' = TRUE
             /\ outcomes' = Append(outcomes, "skipped") ) ]_vars

\* C3 witness: a call returned "skipped" for a file that is truncated.
C3_Witness ==
    /\ dlpc = "returned" /\ dlret
    /\ Len(outcomes) > 0 /\ outcomes[Len(outcomes)] = "skipped"
    /\ destination \in DOMAIN disk
    /\ disk[destination] < BodyLen(body)
    /\ netcalls = << >>

\* C4 (as stated): the second run of the same command makes no network call.
C4_SecondRunNoNetworkCall ==
    run = 2 => netcalls = << >>

\* C4 (amended): the second run makes a network call exactly for the entries
\* whose download failed in the first run, each once; with no failure in the
\* first run it makes none and every call of download_file is skipped.
C4_SecondRunFetchesOnlyFailed ==
    (run = 2 /\ pc = "done" /\ Known) =>
        /\ Range(netcalls) = prevFailed
        /\ Len(netcalls) = Cardinality(prevFailed)
        /\ prevFailed = {} =>
              /\ netcalls = << >>
              /\ \A k \in 1..Len(outcomes) : outcomes[k] = "skipped"
              /\ \A k \in 1..Len(attempts) :
                     Info(attempts[k]).path \in DOMAIN diskAtStart

\* C4 witness: a second run after a first run that downloaded files and had
\* no failure; it considered entries and made no network call.
C4_Witness ==
    /\ run = 2 /\ pc = "done" /\ Known
    /\ prevFailed = {}
    /\ Len(attempts) > MaxPreexisting
    /\ netcalls = << >>

\* C5 (as stated): from an empty model directory, pack sdxl with default
\* flags makes 7 fetch attempts (3 main files, 3 LoRAs, 1 embedding); with
\* skip_optional and skip_loras only the checkpoint and the vae.
C5_SdxlAttempts ==
    (run = 1 /\ pc = "done" /\ pack_name = "sdxl" /\ DOMAIN diskAtStart = {})
    =>
        /\ (~skip_optional /\ ~skip_loras /\ ~skip_controlnet) =>
              /\ Len(attempts) = 7
              /\ Range(attempts) =
                    { << "files", 1 >>, << "files", 2 >>, << "files", 3 >>,
                      << "loras", 1 >>, << "loras", 2 >>, << "loras", 3 >>,
                      << "embeddings", 1 >> }
        /\ (skip_optional /\ skip_loras) =>
              attempts = << << "files", 1 >>, << "files", 3 >> >>

\* C6: when the run of a catalog pack has ended, an entry of the main, LoRA
\* or ControlNet group was passed to download_file if and only if its group
\* is not excluded by skip_loras / skip_controlnet and it is not both
\* flagged optional and skip_optional set.
C6_SkipFlagSemantics ==
    (pc = "done" /\ Known) =>
        \A e \in GroupEntries :
            e \in Range(attempts) <=>
                /\ ~(e[1] = "loras" /\ skip_loras)
                /\ ~(e[1] = "controlnet" /\ skip_controlnet)
                /\ ~(skip_optional /\ FlaggedOptional(e))

\* C6 witness: a finished run in which one entry was left out by its group
\* flag, another by skip_optional, and a third was fetched.
C6_Witness ==
    /\ pc = "done" /\ Known
    /\ \E e \in GroupEntries :
           /\ e[1] \in { "loras", "controlnet" }
           /\ (e[1] = "loras" => skip_loras)
           /\ (e[1] = "controlnet" => skip_controlnet)
           /\ e \notin Range(attempts)
    /\ \E e \in GroupEntries :
           e[1] = "files" /\ skip_optional /\ FlaggedOptional(e)
           /\ e \notin Range(attempts)
    /\ attempts # << >>

\* C7: for a pack key that is not in the catalog, download_model_pack
\* returns False, calls neither download_file nor the network, and leaves
\* every file as it was.
C7_UnknownPackFailsFast ==
    ~Known =>
        /\ attempts = << >>
        /\ netcalls = << >>
        /\ disk = diskAtStart
        /\ dlpc = "idle"
        /\ pc \in { "start", "done" }
        /\ pc = "done" => ret = "False"

\* C7 witness: the call with the unknown key has returned False, with a file
\* on disk.
C7_Witness ==
    /\ ~Known /\ pc = "done" /\ ret = "False"
    /\ DOMAIN disk # {}

\* C8: no entry is passed to download_file twice in a run, and when the run
\* has ended every main, LoRA and ControlNet entry that no skip flag
\* excludes was passed to it exactly once, whatever the earlier calls
\* returned.
C8_EachEntryExactlyOnce ==
    Known =>
        /\ Cardinality(Range(attempts)) = Len(attempts)
        /\ pc = "done" =>
              \A e \in GroupEntries :
                  ~ExcludedByFlag(e) =>
                      Cardinality({ k \in 1..Len(attempts) : attempts[k] = e })
                          = 1

\* C8 witness: a finished run in which a required main file failed and the
\* entries after it, in the main group and in a later group, were attempted.
C8_Witness ==
    /\ pc = "done" /\ Known
    /\ \E k \in Returned("failed") :
           /\ attempts[k][1] = "files" /\ ~FlaggedOptional(attempts[k])
           /\ k + 1 <= Len(attempts) /\ attempts[k + 1][1] = "files"
    /\ attempts[Len(attempts)][1] # "files"

\* C9: during and after a run, every file that existed when the run started
\* is still there unchanged and every file the run downloaded completely is
\* there in full, also when the run returns False; the network calls of a
\* second run are all for destinations that were absent when it started.
C9_NoRollback ==
    Known =>
        /\ \A p \in DOMAIN diskAtStart :
               p \in DOMAIN disk /\ disk[p] = diskAtStart[p]
        /\ \A k \in Returned("downloaded") :
               /\ Info(attempts[k]).path \in DOMAIN disk
               /\ disk[Info(attempts[k]).path] = BodyLen(body)
        /\ run = 2 =>
               \A k \in 1..Len(netcalls) :
                   Info(netcalls[k]).path \notin DOMAIN diskAtStart

\* C9 witness: a run that returned False, after it skipped a file that was
\* there before and downloaded another one whose last chunk was short.
C9_Witness ==
    /\ pc = "done" /\ Known /\ ret = "False"
    /\ body # << >> /\ body[Len(body)] < BufferSize
    /\ Returned("skipped") # {}
    /\ Returned("downloaded") # {}
    /\ \A k \in Returned("downloaded") :
           Info(attempts[k]).path \in DOMAIN disk

\* The position of a group in the order main, LoRA, ControlNet.
Rank(g) == CASE g = "files" -> 1 [] g = "loras" -> 2 [] g = "controlnet" -> 3

\* Entry a comes before entry b in declared order.
Before(a, b) ==
    \/ Rank(a[1]) < Rank(b[1])
    \/ a[1] = b[1] /\ a[2] < b[2]

\* C10: the attempts of a run are in declared order (main before LoRA before
\* ControlNet, by position within a group; each attempt comes before the
\* next, and Before is transitive), and a call of download_file
\* starts only when all earlier ones have returned: at most one is in
\* flight, and it is the last one started.
C10_SequentialInOrder ==
    /\ \A k \in 1..(Len(attempts) - 1) : Before(attempts[k], attempts[k + 1])
    /\ Len(outcomes) <= Len(attempts)
    /\ Len(attempts) <= Len(outcomes) + 1
    /\ InFlight <=> Len(attempts) = Len(outcomes) + 1
    /\ InFlight => destination = Info(attempts[Len(attempts)]).path

\* C10 witness: a LoRA transfer is writing chunks after all main-group calls
\* have returned.
C10_Witness ==
    /\ dlpc = "iter" /\ pbar >= 1
    /\ attempts[Len(attempts)][1] = "loras"
    /\ Len(outcomes) >= 2
    /\ \A k \in 1..Len(outcomes) : attempts[k][1] = "files"

\* The destination of the call the first run was terminated in.
IntPath == Info(interrupted.entry).path

\* C11: when the first run is terminated while a transfer is writing its
\* destination, no cleanup runs: the file stays at its path with the chunks
\* written so far, but for those still in the buffer of a killed process (a
\* chunk larger than the buffer is in the file with all the chunks before
\* it); the next run leaves the file as it is: it makes no network call for
\* that entry and reports it skipped.
C11_InterruptLeavesPartialFile ==
    interrupted.at = "iter" =>
        /\ IntPath \in DOMAIN disk
        /\ disk[IntPath] = interrupted.left
        /\ interrupted.left <= interrupted.written
        /\ (interrupted.written >= 1
              /\ body[interrupted.written] > BufferSize) =>
              interrupted.left = interrupted.written
        /\ run = 2 =>
              /\ interrupted.entry \notin Range(netcalls)
              /\ \A k \in 1..Len(outcomes) :
                     attempts[k] = interrupted.entry => outcomes[k] = "skipped"
              /\ pc = "done" =>
                     \E k \in 1..Len(outcomes) :
                         attempts[k] = interrupted.entry

\* C11 witness: the run after the termination returned True although the
\* required main file the first run was writing is still truncated.
C11_Witness ==
    /\ run = 2 /\ pc = "done" /\ ret = "True"
    /\ interrupted.at = "iter"
    /\ interrupted.entry[1] = "files"
    /\ ~FlaggedOptional(interrupted.entry)
    /\ interrupted.written >= 1
    /\ interrupted.written < BodyLen(body)
    /\ disk[IntPath] < BodyLen(body)
    /\ netcalls = << >>

\* A further state of C11: the process was killed after every chunk was
\* passed to f.write, and the file is left empty because all of them were
\* still in the buffer.
C11_KilledBeforeFlush ==
    /\ pc = "killed"
    /\ interrupted.at = "iter"
    /\ interrupted.written = BodyLen(body)
    /\ interrupted.written >= 2
    /\ interrupted.left = 0

\* No step of download_file waits for the other invocation: while both
\* invocations are inside download_file for the same destination, the next
\* step of each can be taken, wherever the other one stands.
NeverWaits ==
    (dlpc \notin { "idle", "returned" } /\ peer.dlpc \notin { "idle", "returned" }
        /\ peer.destination = destination) =>
        /\ dlpc = "get" => ENABLED Get
        /\ dlpc = "open" => ENABLED Open
        /\ dlpc = "iter" => ENABLED WriteChunk \/ ENABLED Finish
        /\ dlpc = "except" => ENABLED ExceptCheck
        /\ dlpc = "unlink" => ENABLED ExceptUnlink
        /\ peer.dlpc = "get" => ENABLED PeerGet
        /\ peer.dlpc = "open" => ENABLED PeerOpen
        /\ peer.dlpc = "iter" => ENABLED PeerWriteChunk \/ ENABLED PeerFinish
        /\ peer.dlpc = "except" => ENABLED PeerExceptCheck
        /\ peer.dlpc = "unlink" => ENABLED PeerUnlink

\* C12: two simultaneous invocations with the same destination are not
\* mutually excluded.  In every download_file call of either pack run, no
\* step waits for or looks at the other invocation: the existence check
\* returns "skipped" for any path that exists and lets the call proceed for
\* any path that does not, open truncates the path, and the failure cleanup
\* removes the path if it finds it, whatever the other invocation is doing
\* with that file; an unlink that no longer finds the path ends its process
\* with FileNotFoundError.
C12_NoMutualExclusion ==
    [][ /\ NeverWaits
        /\ (dlpc = "idle" /\ Len(attempts') = Len(attempts) + 1) =>
              IF Info(attempts'[Len(attempts')]).path \in DOMAIN disk
              THEN dlpc' = "returned" /\ dlret' /\ disk' = disk
              ELSE dlpc' = "get" /\ disk' = disk
        /\ (dlpc = "open" /\ dlpc' = "iter") =>
              destination \in DOMAIN disk' /\ disk'[destination] = 0
        /\ (dlpc = "except" /\ dlpc' # "except") =>
              /\ disk' = disk
              /\ IF destination \in DOMAIN disk
                 THEN dlpc' = "unlink"
                 ELSE dlpc' = "returned" /\ ~dlret'
        /\ (dlpc = "unlink" /\ dlpc' # "unlink") =>
              IF destination \in DOMAIN disk
              THEN /\ destination \notin DOMAIN disk'
                   /\ dlpc' = "returned" /\ ~dlret'
              ELSE pc' = "crashed" /\ ret' = "none" /\ disk' = disk
        /\ (peer.dlpc = "idle" /\ peer'.dlpc # "idle") =>
              /\ peer'.destination = PeerEntries[peer.i].path
              /\ disk' = disk
              /\ IF peer'.destination \in DOMAIN disk
                 THEN peer'.dlpc = "returned" /\ peer'.dlret
                 ELSE peer'.dlpc = "get"
        /\ (peer.dlpc = "open" /\ peer'.dlpc = "iter") =>
              /\ peer.destination \in DOMAIN disk'
              /\ disk'[peer.destination] = 0
        /\ (peer.dlpc = "except" /\ peer'.dlpc # "except") =>
              /\ disk' = disk
              /\ IF peer.destination \in DOMAIN disk
                 THEN peer'.dlpc = "unlink"
                 ELSE peer'.dlpc = "returned" /\ ~peer'.dlret
        /\ (peer.dlpc = "unlink" /\ peer'.dlpc # "unlink") =>
              IF peer.destination \in DOMAIN disk
              THEN /\ peer.destination \notin DOMAIN disk'
                   /\ peer'.dlpc = "returned" /\ ~peer'.dlret
              ELSE peer'.pc = "crashed" /\ disk' = disk
      ]_vars

\* C12 witness: both pack runs wrote chunks to the same file, and the
\* failure cleanup of one has just deleted it while the other is still
\* writing it.
C12_Witness ==
    /\ dlpc = "returned" /\ ~dlret /\ pbar >= 1
    /\ peer.pc = "loop" /\ peer.destination = destination
    /\ peer.dlpc = "iter" /\ peer.pbar >= 1
    /\ destination \notin DOMAIN disk

\* A further race state of C12: one invocation reported "skipped" for a file
\* the other is still writing.
C12_SkippedWhilePartial ==
    /\ dlpc = "returned" /\ dlret
    /\ Len(outcomes) > 0 /\ outcomes[Len(outcomes)] = "skipped"
    /\ peer.destination = destination
    /\ peer.dlpc = "iter" /\ peer.pbar < BodyLen(body)
    /\ disk[destination] < BodyLen(body)

\* A further race state of C12: both invocations are writing the same file.
C12_BothWriting ==
    /\ dlpc = "iter" /\ peer.dlpc = "iter"
    /\ peer.destination = destination
    /\ destination \in DOMAIN disk

\* A further race state of C12: the file one invocation reported as
\* downloaded was deleted by the failure cleanup of the other.
C12_DownloadedThenDeleted ==
    /\ peer.dlpc = "returned" /\ peer.outcome = "downloaded"
    /\ dlpc = "returned" /\ ~dlret
    /\ peer.destination = destination
    /\ destination \notin DOMAIN disk

\* A further race state of C12: both cleanups found the file, one unlinked
\* it, and the unlink of the other raised FileNotFoundError, which ended the
\* pack run without a result.
C12_CleanupCrashed ==
    /\ pc = "crashed" /\ ret = "none"
    /\ peer.dlpc = "returned" /\ peer.outcome = "failed"
    /\ peer.destination \in SharedPaths(pack_name)
    /\ peer.destination \notin DOMAIN disk

\* A further race state of C12: the file one invocation reported as
\* downloaded is longer than the other left it, because closing wrote the
\* buffered chunk after the other invocation had truncated the file.
C12_FlushedAfterTruncate ==
    /\ dlpc = "returned" /\ dlret
    /\ Len(outcomes) > 0 /\ outcomes[Len(outcomes)] = "downloaded"
    /\ peer.destination = destination
    /\ peer.dlpc = "iter" /\ peer.pbar = 0
    /\ disk[destination] = BodyLen(body)
    /\ BodyLen(body) >= 2

\* A further race state of C12: the first invocation downloaded its own
\* checkpoint and reported both files it shares with the second one as
\* skipped, because the second pack run had created them.
C12_BothSharedSkipped ==
    /\ pc = "done" /\ ret = "True"
    /\ outcomes = << "downloaded", "skipped", "skipped" >>
    /\ peer.pack = "sdxl"
    /\ peer.pc \in { "loop", "done" }

\* A further race state of C12: the second pack run went through all its
\* loops and returned, the first one crashed in its cleanup.
C12_PeerDoneAfterCrash ==
    /\ peer.pc = "done"
    /\ pc = "crashed"

\* The main-group entries of the requested pack that are not flagged
\* optional.
RequiredMain ==
    { e \in { << "files", k >> : k \in 1..Len(MODEL_PACKS[pack_name].files) } :
          ~FlaggedOptional(e) }

\* C13: when an uninterrupted run of a catalog pack, with no other
\* invocation, has returned True, the destination of every main entry that
\* is not flagged optional exists; when it has returned False, the
\* destination of at least one such entry does not exist.
C13_SuccessPostcondition ==
    (pc = "done" /\ Known) =>
        /\ ret = "True" =>
              \A e \in RequiredMain : Info(e).path \in DOMAIN disk
        /\ ret = "False" =>
              \E e \in RequiredMain : Info(e).path \notin DOMAIN disk

\* C13 witness: a run returned True after it downloaded a required main file
\* and another download failed.
C13_Witness ==
    /\ pc = "done" /\ Known /\ ret = "True"
    /\ \E k \in Returned("downloaded") : attempts[k] \in RequiredMain
    /\ Returned("failed") # {}
    /\ \A e \in RequiredMain : Info(e).path \in DOMAIN disk

====
